---- MODULE Spec2Model ----
(***************************************************************************)
(* A model of jnix: the IntoJava derive macro (jnix-macros) and the        *)
(* process-wide class cache of JnixEnv (jnix).                             *)
(*                                                                         *)
(* The derive macro is a pure function from a type declaration to the      *)
(* body of into_java.  The generated body is kept as data (a list of `let` *)
(* statements, the constructor call and its class argument) and is then    *)
(* executed on a value of the type, so that what the generated code does   *)
(* at run time can be compared with the declaration it came from.          *)
(*                                                                         *)
(* Two generators live in the sources: the one of lib.rs (parse_fields,    *)
(* generate_struct_parameters, ...) and the ParsedFields one of fields.rs. *)
(* Both are modelled, each from its own code.                              *)
(***************************************************************************)
EXTENDS Integers, Sequences, FiniteSets, TLC

VARIABLES
    phase,      \* which part of the program this behaviour exercises
    pc,         \* position of the derivation / conversion
    decl,       \* the type declaration handed to the derive macro
    acc,        \* the accumulator of the fold over an enumeration's variants
    generator,  \* which generator produced `code`: "lib" or "fields"
    code,       \* the generated into_java body
    impl,       \* the other items of the generated implementation
    subject,    \* the variant of the value being converted (0: a structure)
    result,     \* what running the generated body produced
    cache, lock, threads, refs, loads, calls   \* the class cache, see below

genVars == <<phase, pc, decl, acc, generator, code, impl, subject, result>>
cacheVars == <<cache, lock, threads, refs, loads, calls>>
vars == <<genVars, cacheVars>>

None == [none |-> TRUE]

(***************************************************************************)
(* Bounds of the model.                                                    *)
(***************************************************************************)
MaxFields == 2
MaxVariants == 3
MaxVariantFields == 2
NumThreads == 2
MaxCalls == 3
MaxPreload == 2
MaxGenerics == 2
MaxNesting == 2

(***************************************************************************)
(* Strings.  Identifiers and descriptors are TLA+ strings; a string whose  *)
(* characters are inspected (a dotted class name) is a sequence of         *)
(* one-character strings.                                                  *)
(***************************************************************************)
RECURSIVE Join(_)
Join(chars) ==
    IF chars = <<>> THEN "" ELSE Head(chars) \o Join(Tail(chars))

RECURSIVE Concat(_)
Concat(strs) ==
    IF strs = <<>> THEN "" ELSE Head(strs) \o Concat(Tail(strs))

\* a replacement of the first "." only
ReplaceDotsBySlashes_FirstOnly(chars) ==
    [i \in DOMAIN chars |->
        IF chars[i] = "." /\ \A j \in 1..(i - 1) : chars[j] # "." THEN "/" ELSE chars[i]]

\* str::replace(".", "/")
ReplaceDotsBySlashes(chars) ==
    [i \in DOMAIN chars |-> IF chars[i] = "." THEN "/" ELSE chars[i]]

\* format!("_{}", index)
IndexName(index) == "_" \o ToString(index)

(***************************************************************************)
(* Attributes.  #[jnix(a, b = "v")] is the sequence of its items; an item  *)
(* is a flag or a key with a literal.                                      *)
(***************************************************************************)
Flag(key) == [key |-> key, kind |-> "flag", value |-> <<>>]
StrSetting(key, value) == [key |-> key, kind |-> "str", value |-> value]
\* key = 3: a literal that is no string
IntSetting(key) == [key |-> key, kind |-> "int", value |-> <<>>]
\* tokens that are neither a path nor key = literal
Malformed == [key |-> "", kind |-> "malformed", value |-> <<>>]

\* parse_args::<Path>() succeeds on an attribute holding one bare path
ParsesAsPath(attribute) ==
    Len(attribute) = 1 /\ attribute[1].kind = "flag"

\* parse_args::<MetaNameValue>() succeeds on an attribute holding one key = literal
ParsesAsNameValue(attribute) ==
    Len(attribute) = 1 /\ attribute[1].kind \in {"str", "int"}

contains_jnix_flag_attribute(attributes, flag) ==
    \E i \in DOMAIN attributes :
        ParsesAsPath(attributes[i]) /\ attributes[i][1].key = flag

extract_jnix_name_value_attribute(attributes, name) ==
    LET hits == SelectSeq(attributes,
                    LAMBDA a : ParsesAsNameValue(a) /\ a[1].key = name)
    IN  IF hits = <<>> THEN None ELSE Head(hits)[1]

\* a class name taken from a literal of any kind
parse_java_class_name_AnyLiteral(attributes) ==
    LET attribute == extract_jnix_name_value_attribute(attributes, "class_name")
    IN  IF attribute = None THEN None ELSE attribute.value

parse_java_class_name(attributes) ==
    LET attribute == extract_jnix_name_value_attribute(attributes, "class_name")
    IN  IF attribute = None THEN None
        ELSE IF attribute.kind = "str" THEN attribute.value ELSE None

\* JnixAttributes: the hint set of an item, flags and string settings
JnixAttributes_new(attributes) ==
    LET items == UNION { { attributes[i][j] : j \in DOMAIN attributes[i] } :
                         i \in DOMAIN attributes }
    IN  [flags  |-> { it.key : it \in { x \in items : x.kind = "flag" } },
         values |-> { x \in items : x.kind = "str" }]

\* JnixAttributes::new fails on a setting whose value is no string literal
\* and on contents that are no list of hints
JnixAttributes_new_fails(attributes) ==
    \E i \in DOMAIN attributes : \E j \in DOMAIN attributes[i] :
        attributes[i][j].kind \notin {"flag", "str"}

has_flag(attributes, flag) == flag \in attributes.flags

get_value(attributes, key) ==
    LET hits == { x \in attributes.values : x.key = key }
    IN  IF hits = {} THEN None ELSE (CHOOSE x \in hits : TRUE).value

(***************************************************************************)
(* Types of fields and their descriptors (the IntoJava implementations).   *)
(* "T" is the type parameter of the container; the program instantiates it *)
(* with String.                                                            *)
(***************************************************************************)
FieldTypes == {"i32", "bool", "T"}

TypeParameters == {"T"}

\* TypeParameters::is_used_in_type
is_used_in_type(type_parameters, ty) == ty \in type_parameters

\* <T as IntoJava>::JNI_SIGNATURE
JNI_SIGNATURE(ty) ==
    CASE ty = "i32"  -> "I"
      [] ty = "bool" -> "Z"
      [] ty = "T"    -> "Ljava/lang/String;"

(***************************************************************************)
(* The generated code, as data.                                            *)
(*   a member access path:  .ident  or  .index                             *)
(*   an expression:         self.member, a binding, a literal,             *)
(*                          x.jni_signature(), x.into_java(env)            *)
(*   a statement:           let name = expression;                         *)
(***************************************************************************)
MemberNamed(ident) == [named |-> TRUE, ident |-> ident, index |-> 0]
MemberUnnamed(index) == [named |-> FALSE, ident |-> "", index |-> index]

SelfMember(member) == [op |-> "member", member |-> member, name |-> "", lit |-> ""]
Binding(name) == [op |-> "var", member |-> None, name |-> name, lit |-> ""]
Literal(lit) == [op |-> "lit", member |-> None, name |-> "", lit |-> lit]
JniSignatureOf(name) == [op |-> "jni_signature", member |-> None, name |-> name, lit |-> ""]
IntoJavaOf(name) == [op |-> "into_java", member |-> None, name |-> name, lit |-> ""]

LetStmt(name, expr) == [name |-> name, expr |-> expr]

\* the class argument of a bridge call: a reference obtained from
\* env.get_class(name), or the name itself, resolved by the bridge
ClassFromCache(name) == [via |-> "get_class", name |-> name]
ClassByName(name) == [via |-> "by_name", name |-> name]

RECURSIVE Flatten(_)
Flatten(seqs) ==
    IF seqs = <<>> THEN <<>> ELSE Head(seqs) \o Flatten(Tail(seqs))

(***************************************************************************)
(* The `map` hint.  Its value is the text of a closure, kept as the        *)
(* sequence of its tokens:  | v | f   or   | v : i64 | f .  A parsed       *)
(* closure holds its inputs (a pattern, and the type written after it, ""  *)
(* when none is written) and its body.                                     *)
(***************************************************************************)
RECURSIVE SplitAtCommas(_)
SplitAtCommas(tokens) ==
    IF tokens = <<>> THEN <<>>
    ELSE IF \E i \in DOMAIN tokens : tokens[i] = ","
    THEN LET i == CHOOSE k \in DOMAIN tokens :
                    tokens[k] = "," /\ \A j \in 1..(k - 1) : tokens[j] # ","
         IN  <<SubSeq(tokens, 1, i - 1)>> \o
                (IF i = Len(tokens) THEN <<>>
                 ELSE SplitAtCommas(SubSeq(tokens, i + 1, Len(tokens))))
    ELSE <<tokens>>

\* a closure parameter: a pattern, or a pattern with a type
ParsePat(tokens) ==
    IF Len(tokens) = 1 /\ tokens[1] \notin {":", "|", ","}
    THEN [pat |-> tokens[1], ty |-> ""]
    ELSE IF Len(tokens) = 3 /\ tokens[2] = ":" /\ tokens[1] \notin {":", "|", ","}
            /\ tokens[3] \notin {":", "|", ","}
    THEN [pat |-> tokens[1], ty |-> tokens[3]]
    ELSE None

\* parse_str::<ExprClosure>: None stands for the Err
ParseExprClosure(tokens) ==
    IF Len(tokens) < 3 \/ tokens[1] # "|"
        \/ ~\E i \in 2..Len(tokens) : tokens[i] = "|"
    THEN None
    ELSE LET close == CHOOSE k \in 2..Len(tokens) :
                        tokens[k] = "|" /\ \A j \in 2..(k - 1) : tokens[j] # "|"
             pieces == SplitAtCommas(SubSeq(tokens, 2, close - 1))
             inputs == [i \in DOMAIN pieces |-> ParsePat(pieces[i])]
             body   == SubSeq(tokens, close + 1, Len(tokens))
         IN  IF Len(body) # 1 \/ body[1] \in {":", "|", ","}
                \/ \E i \in DOMAIN inputs : inputs[i] = None
             THEN None
             ELSE [inputs |-> inputs, body |-> body[1]]

\* (closure)(source)
CallClosure(closure, name) ==
    [op |-> "call", member |-> None, name |-> name, lit |-> "", closure |-> closure]

\* a closure parameter written without a type
add_type_to_parameter_KeepsUntyped(parameter, ty) == parameter

add_type_to_parameter(parameter, ty) ==
    IF parameter.ty # "" THEN parameter
    ELSE [pat |-> parameter.pat, ty |-> ty]

\* a closure taken with whatever inputs it declares
prepare_map_closure_AnyArity(closure, field) ==
    IF closure.inputs = <<>> THEN closure
    ELSE [closure EXCEPT !.inputs[1] = add_type_to_parameter(@, field.ty)]

\* None stands for the panic of the assert! on the number of inputs
prepare_map_closure(closure, field) ==
    IF Len(closure.inputs) # 1 THEN None
    ELSE [closure EXCEPT !.inputs =
            <<add_type_to_parameter(closure.inputs[1], field.ty)>>]

(***************************************************************************)
(* The generator of lib.rs.                                                *)
(***************************************************************************)
NotSkipped(field) == ~contains_jnix_flag_attribute(field.attrs, "skip")

parse_fields(attributes, fields) ==
    IF contains_jnix_flag_attribute(attributes, "skip_all") THEN <<>>
    ELSE CASE fields.kind = "Unit" -> <<>>
           [] fields.kind = "Unnamed" ->
                LET kept == SelectSeq(fields.list, NotSkipped)
                IN  [i \in DOMAIN kept |->
                        [name    |-> MemberUnnamed(i - 1),
                         binding |-> IndexName(i - 1),
                         field   |-> kept[i]]]
           [] fields.kind = "Named" ->
                LET kept == SelectSeq(fields.list, NotSkipped)
                IN  [i \in DOMAIN kept |->
                        [name    |-> MemberNamed(kept[i].ident),
                         binding |-> kept[i].ident,
                         field   |-> kept[i]]]

\* None stands for a panic of the generator
generate_conversion(source, field) ==
    LET attribute == extract_jnix_name_value_attribute(field.attrs, "map")
    IN  IF attribute = None THEN Binding(source)
        ELSE IF attribute.kind # "str" THEN None
        ELSE LET parsed == ParseExprClosure(attribute.value)
             IN  IF parsed = None THEN None
                 ELSE LET closure == prepare_map_closure(parsed, field)
                      IN  IF closure = None THEN None
                          ELSE CallClosure(closure, source)

generate_struct_parameters(attributes, fields) ==
    LET named_fields == parse_fields(attributes, fields)
        N == DOMAIN named_fields
        source(i) == "_source_" \o named_fields[i].binding
        signature(i) == "_signature_" \o named_fields[i].binding
        converted(i) == "_converted_" \o named_fields[i].binding
        final(i) == "_final_" \o named_fields[i].binding
    IN  [names             |-> [i \in N |-> named_fields[i].name],
         original_bindings |-> [i \in N |-> named_fields[i].binding],
         source_bindings   |-> [i \in N |-> source(i)],
         declarations      |-> [i \in N |->
            << LetStmt(converted(i), generate_conversion(source(i), named_fields[i].field)),
               LetStmt(signature(i), JniSignatureOf(converted(i))),
               LetStmt(final(i), IntoJavaOf(converted(i))) >>],
         signatures        |-> [i \in N |-> signature(i)],
         parameters        |-> [i \in N |-> final(i)]]

generate_struct_or_struct_variant_into_java_body(jni_class_name_literal, parameter_declarations, parameter_signatures, parameters) ==
    [kind       |-> "new_object",
     lets       |-> Flatten(parameter_declarations),
     signatures |-> parameter_signatures,
     parameters |-> parameters,
     class      |-> ClassByName(jni_class_name_literal)]

generate_struct_into_java_body(jni_class_name_literal, attributes, fields) ==
    LET p == generate_struct_parameters(attributes, fields)
        body == generate_struct_or_struct_variant_into_java_body(
                    jni_class_name_literal, p.declarations, p.signatures, p.parameters)
    IN  [body EXCEPT !.lets =
            [i \in DOMAIN p.names |->
                LetStmt(p.source_bindings[i], SelfMember(p.names[i]))] \o @]

(***************************************************************************)
(* The generator of fields.rs (ParsedField, ParsedFields).                 *)
(***************************************************************************)
ParsedField_new(name, field, attributes, member) ==
    [name           |-> name,
     field          |-> field,
     attributes     |-> attributes,
     member         |-> member,
     source_binding |-> "_source_" \o name]

check_skip_attribute(field) ==
    LET attributes == JnixAttributes_new(field.attrs)
    IN  IF has_flag(attributes, "skip") THEN None ELSE attributes

from_named_field(field) ==
    LET attributes == check_skip_attribute(field)
    IN  IF attributes = None THEN None
        ELSE ParsedField_new(field.ident, field, attributes, MemberNamed(field.ident))

from_unnamed_field(field, index) ==
    LET attributes == check_skip_attribute(field)
    IN  IF attributes = None THEN None
        ELSE ParsedField_new(IndexName(index), field, attributes, MemberUnnamed(index))

\* Iterator::filter_map(...).collect()
RECURSIVE FilterMapCollect(_)
FilterMapCollect(options) ==
    IF options = <<>> THEN <<>>
    ELSE IF Head(options) = None THEN FilterMapCollect(Tail(options))
    ELSE <<Head(options)>> \o FilterMapCollect(Tail(options))

collect_parsed_fields(fields, attributes) ==
    IF has_flag(attributes, "skip_all") THEN <<>>
    ELSE CASE fields.kind = "Unit" -> <<>>
           [] fields.kind = "Named" ->
                FilterMapCollect([i \in DOMAIN fields.list |->
                                    from_named_field(fields.list[i])])
           [] fields.kind = "Unnamed" ->
                FilterMapCollect([i \in DOMAIN fields.list |->
                                    from_unnamed_field(fields.list[i], i - 1)])

ParsedFields_new(fields, attributes) ==
    [fields |-> collect_parsed_fields(fields, attributes)]

binding(parsed_field, prefix) == "_" \o prefix \o "_" \o parsed_field.name

ParsedField_add_type_to_parameter(self, parameter) ==
    IF parameter.ty # "" THEN parameter
    ELSE [pat |-> parameter.pat, ty |-> self.field.ty]

\* None stands for the panic of the assert! (more than one input) or of the
\* expect on the popped input (no input)
ParsedField_prepare_map_closure(self, closure) ==
    IF ~(Len(closure.inputs) <= 1) THEN None
    ELSE IF closure.inputs = <<>> THEN None
    ELSE [closure EXCEPT !.inputs =
            SubSeq(@, 1, Len(@) - 1) \o
                <<ParsedField_add_type_to_parameter(self, closure.inputs[Len(closure.inputs)])>>]

\* None stands for a panic of the generator
preconversion(parsed_field) ==
    LET closure_string_literal == get_value(parsed_field.attributes, "map")
    IN  IF closure_string_literal = None THEN Binding(parsed_field.source_binding)
        ELSE LET parsed == ParseExprClosure(closure_string_literal)
             IN  IF parsed = None THEN None
                 ELSE LET closure == ParsedField_prepare_map_closure(parsed_field, parsed)
                      IN  IF closure = None THEN None
                          ELSE CallClosure(closure, parsed_field.source_binding)

field_signature(parsed_field, type_parameters) ==
    LET target == get_value(parsed_field.attributes, "target_class")
    IN  IF target # None
        THEN Literal("L" \o Join(ReplaceDotsBySlashes(target)) \o ";")
        ELSE IF is_used_in_type(type_parameters, parsed_field.field.ty)
        THEN Literal("Ljava/lang/Object;")
        ELSE JniSignatureOf(binding(parsed_field, "converted"))

declarations(self, signature_bindings, final_bindings, type_parameters) ==
    [i \in DOMAIN self.fields |->
        << LetStmt(binding(self.fields[i], "converted"), preconversion(self.fields[i])),
           LetStmt(signature_bindings[i], field_signature(self.fields[i], type_parameters)),
           LetStmt(final_bindings[i], IntoJavaOf(binding(self.fields[i], "converted"))) >>]

bindings(self, prefix) ==
    [i \in DOMAIN self.fields |-> binding(self.fields[i], prefix)]

source_bindings(self) ==
    [i \in DOMAIN self.fields |-> self.fields[i].source_binding]

original_bindings(self) ==
    [i \in DOMAIN self.fields |-> self.fields[i].name]

members(self) ==
    [i \in DOMAIN self.fields |-> self.fields[i].member]

generate_into_java_conversion(self, jni_class_name_literal, type_parameters) ==
    LET signature_bindings == bindings(self, "signature")
        final_bindings == bindings(self, "final")
    IN  [kind       |-> "new_object",
         lets       |-> Flatten(declarations(self, signature_bindings,
                                             final_bindings, type_parameters)),
         signatures |-> signature_bindings,
         parameters |-> final_bindings,
         class      |-> ClassFromCache(jni_class_name_literal)]

generate_struct_into_java(self, jni_class_name_literal, type_parameters) ==
    LET conversion == generate_into_java_conversion(self, jni_class_name_literal,
                                                    type_parameters)
    IN  [conversion EXCEPT !.lets =
            [i \in DOMAIN self.fields |->
                LetStmt(source_bindings(self)[i], SelfMember(members(self)[i]))] \o @]

generate_struct_variant_into_java(self, jni_class_name_literal, type_parameters) ==
    LET conversion == generate_into_java_conversion(self, jni_class_name_literal,
                                                    type_parameters)
    IN  [conversion EXCEPT !.lets =
            [i \in DOMAIN self.fields |->
                LetStmt(source_bindings(self)[i], Binding(original_bindings(self)[i]))] \o @]

(***************************************************************************)
(* Running the generated code.  A value of the declared type holds one     *)
(* value per declared field; a field's value is known by the position of   *)
(* the field that holds it.  into_java turns a value into a handle of it.  *)
(***************************************************************************)
FieldValue(field) == [tag |-> "value", field |-> field.pos, ty |-> field.ty]

ValueOf(fields) == [i \in DOMAIN fields.list |-> FieldValue(fields.list[i])]

Handle(value) == [tag |-> "handle", of |-> value]

\* the closures of the model turn their argument into a bool
ApplyClosure(closure, value) ==
    [tag |-> "value", field |-> value.field, ty |-> "bool", by |-> closure.body]

\* self.member
Access(self, fields, member) ==
    IF member.named
    THEN self[CHOOSE i \in DOMAIN fields.list : fields.list[i].ident = member.ident]
    ELSE self[member.index + 1]

EvalExpr(expr, env, self, fields) ==
    CASE expr.op = "member"        -> Access(self, fields, expr.member)
      [] expr.op = "var"           -> env[expr.name]
      [] expr.op = "lit"           -> expr.lit
      [] expr.op = "jni_signature" -> JNI_SIGNATURE(env[expr.name].ty)
      [] expr.op = "into_java"     -> Handle(env[expr.name])
      [] expr.op = "call"          -> ApplyClosure(expr.closure, env[expr.name])

\* a `let` shadows an earlier binding of the same name
RECURSIVE RunLets(_, _, _, _)
RunLets(lets, env, self, fields) ==
    IF lets = <<>> THEN env
    ELSE RunLets(Tail(lets),
                 (Head(lets).name :> EvalExpr(Head(lets).expr, env, self, fields)) @@ env,
                 self, fields)

(***************************************************************************)
(* The declarations the derive macro is applied to.                        *)
(***************************************************************************)
ClassNames == { <<"a", ".", "B">>, <<"p", ".", "q", ".", "C">> }

TargetClassName == <<"j", ".", "U">>

FieldHints == {"none", "skip", "target_class"}

FieldChoices == [ty : FieldTypes, hint : FieldHints]

\* the hints that take one field of a declaration: `map` texts, a literal
\* that is no string, an attribute with two hints, a malformed attribute
MapHints == {"map", "map_typed", "map_no_input", "map_two_inputs",
             "map_unparsable", "map_not_string"}

SpecialHints == MapHints \cup {"skip_and_target_class", "malformed"}

SpecialChoices == [ty : {"i32"}, hint : SpecialHints]

CompanionChoices == [ty : {"i32"}, hint : {"none", "skip"}]

MapText(hint) ==
    CASE hint = "map"            -> <<"|", "v", "|", "f">>
      [] hint = "map_typed"      -> <<"|", "v", ":", "i64", "|", "f">>
      [] hint = "map_no_input"   -> <<"|", "|", "f">>
      [] hint = "map_two_inputs" -> <<"|", "v", ",", "w", "|", "f">>
      [] hint = "map_unparsable" -> <<"v", "|">>

HintAttributes(hint) ==
    CASE hint = "none"         -> <<>>
      [] hint = "skip"         -> << <<Flag("skip")>> >>
      [] hint = "target_class" -> << <<StrSetting("target_class", TargetClassName)>> >>
      [] hint = "map_not_string" -> << <<IntSetting("map")>> >>
      [] hint = "skip_and_target_class" ->
            << <<Flag("skip"), StrSetting("target_class", TargetClassName)>> >>
      [] hint = "malformed"    -> << <<Malformed>> >>
      [] OTHER                 -> << <<StrSetting("map", MapText(hint))>> >>

FieldIdent(pos) == "f" \o ToString(pos)

MakeField(kind, pos, choice) ==
    [ident |-> IF kind = "Named" THEN FieldIdent(pos) ELSE "",
     ty    |-> choice.ty,
     attrs |-> HintAttributes(choice.hint),
     pos   |-> pos]

MakeFields(kind, choices) ==
    [kind |-> kind,
     list |-> [i \in DOMAIN choices |-> MakeField(kind, i - 1, choices[i])]]

FieldLists(kind, choiceSet, maxLen) ==
    IF kind = "Unit" THEN { MakeFields("Unit", <<>>) }
    ELSE { MakeFields(kind, cs) :
             cs \in UNION { [1..n -> choiceSet] : n \in 0..maxLen } }

ContainerAttributes(class_name, skip_all) ==
    << <<StrSetting("class_name", class_name)>> >>
        \o (IF skip_all THEN << <<Flag("skip_all")>> >> ELSE <<>>)

PlainStructDecls ==
    { [item       |-> "struct",
       ident      |-> "S",
       attrs      |-> ContainerAttributes(cn, sa),
       fields     |-> fs] :
        cn \in ClassNames, sa \in BOOLEAN,
        fs \in UNION { FieldLists(k, FieldChoices, MaxFields) :
                         k \in {"Unit", "Named", "Unnamed"} } }

\* field lists with exactly one field that carries a special hint
SpecialFieldLists(kind) ==
    { MakeFields(kind, cs) :
        cs \in { c \in UNION { [1..n -> SpecialChoices \cup CompanionChoices] :
                                n \in 1..MaxFields } :
                    \E i \in DOMAIN c :
                        /\ c[i] \in SpecialChoices
                        /\ \A j \in DOMAIN c \ {i} : c[j] \in CompanionChoices } }

SpecialStructDecls ==
    { [item       |-> "struct",
       ident      |-> "S",
       attrs      |-> ContainerAttributes(cn, sa),
       fields     |-> fs] :
        cn \in ClassNames, sa \in BOOLEAN,
        fs \in SpecialFieldLists("Named") \cup SpecialFieldLists("Unnamed") }

\* type-level hints without a usable class_name: none at all, or one whose
\* value is no string
NoClassNameAttributes == { <<>>, << <<Flag("skip_all")>> >>, << <<IntSetting("class_name")>> >> }

NoClassNameStructDecls ==
    { [item       |-> "struct",
       ident      |-> "S",
       attrs      |-> as,
       fields     |-> fs] :
        as \in NoClassNameAttributes,
        fs \in FieldLists("Unit", {}, 0)
                \cup FieldLists("Named", [ty : {"i32"}, hint : {"none"}], 1) }

StructDecls == PlainStructDecls \cup SpecialStructDecls \cup NoClassNameStructDecls

(***************************************************************************)
(* derive_into_java for a structure.                                       *)
(***************************************************************************)
jni_class_name_of(attributes) ==
    Join(ReplaceDotsBySlashes(parse_java_class_name(attributes)))

\* const JNI_SIGNATURE of the generated implementation
derive_impl_items(input) ==
    [JNI_SIGNATURE |-> "L" \o jni_class_name_of(input.attrs) \o ";"]

\* a generated `let` whose expression could not be generated
Panicked(body) == \E l \in DOMAIN body.lets : body.lets[l].expr = None

\* None stands for a panic of the derive macro: no implementation is emitted
derive_into_java_lib(input) ==
    IF parse_java_class_name(input.attrs) = None THEN None
    ELSE LET body == generate_struct_into_java_body(jni_class_name_of(input.attrs),
                                                    input.attrs, input.fields)
         IN  IF Panicked(body) THEN None ELSE body

derive_into_java_fields(input) ==
    IF parse_java_class_name(input.attrs) = None THEN None
    ELSE IF JnixAttributes_new_fails(input.attrs) THEN None
    ELSE IF /\ ~has_flag(JnixAttributes_new(input.attrs), "skip_all")
            /\ \E i \in DOMAIN input.fields.list :
                    JnixAttributes_new_fails(input.fields.list[i].attrs)
    THEN None
    ELSE LET body == generate_struct_into_java(
                        ParsedFields_new(input.fields, JnixAttributes_new(input.attrs)),
                        jni_class_name_of(input.attrs), TypeParameters)
         IN  IF Panicked(body) THEN None ELSE body

(***************************************************************************)
(* prepare_generics.  The generics of the declaration are its parameters   *)
(* (lifetime, type or const; the bounds written after the colon) and the   *)
(* predicates of its where clause.                                         *)
(***************************************************************************)
IntoJavaBound == "jnix::IntoJava<'borrow, 'env>"

GenericParamChoices(pos) ==
    { [kind |-> "lifetime", ident |-> "'l" \o ToString(pos), colon |-> c, bounds |-> b] :
        <<c, b>> \in { <<FALSE, <<>>>>, <<TRUE, <<"'static">>>> } }
    \cup
    { [kind |-> "type", ident |-> "T" \o ToString(pos), colon |-> c, bounds |-> b] :
        <<c, b>> \in { <<FALSE, <<>>>>, <<TRUE, <<"Clone">>>>, <<TRUE, <<"Clone", "Send">>>> } }
    \cup
    { [kind |-> "const", ident |-> "N" \o ToString(pos), colon |-> TRUE, bounds |-> <<"usize">>] }

\* rustc accepts the lifetime parameters only before the others
LifetimesFirst(params) ==
    \A i, j \in DOMAIN params :
        (params[i].kind # "lifetime" /\ params[j].kind = "lifetime") => j < i

WherePredicates(params) ==
    { <<>> } \cup
    { << [ident |-> params[i].ident, bounds |-> <<"Sync">>] >> :
        i \in { k \in DOMAIN params : params[k].kind = "type" } }

GenericParamLists ==
    { q \in UNION { [1..n -> UNION { GenericParamChoices(k) : k \in 0..(MaxGenerics - 1) }] :
                      n \in 0..MaxGenerics } :
        /\ \A i \in DOMAIN q : q[i] \in GenericParamChoices(i - 1)
        /\ LifetimesFirst(q) }

GenericsDecls ==
    UNION { { [item |-> "generics", params |-> ps, where_clause |-> w] :
                w \in WherePredicates(ps) } : ps \in GenericParamLists }

OfKind(params, kind) == SelectSeq(params, LAMBDA param : param.kind = kind)

prepare_generics(generics) ==
    LET lifetimes == OfKind(generics.params, "lifetime")
        type_params == OfKind(generics.params, "type")
        type_generics == [i \in DOMAIN lifetimes |-> lifetimes[i].ident]
                            \o [i \in DOMAIN type_params |-> type_params[i].ident]
        bounded_lifetimes == SelectSeq(lifetimes, LAMBDA definition : definition.colon)
        constraints ==
            [i \in DOMAIN bounded_lifetimes |->
                [ident |-> bounded_lifetimes[i].ident, bounds |-> bounded_lifetimes[i].bounds]]
            \o [i \in DOMAIN type_params |->
                [ident |-> type_params[i].ident,
                 bounds |-> Append(type_params[i].bounds, IntoJavaBound)]]
    IN  [impl_generics  |-> <<"'borrow", "'env">> \o type_generics,
         trait_generics |-> <<"'borrow", "'env">>,
         type_generics  |-> IF type_generics = <<>> THEN None ELSE type_generics,
         where_clause   |-> <<[ident |-> "'env", bounds |-> <<"'borrow">>]>> \o constraints]

(***************************************************************************)
(* Enumerations (lib.rs).                                                  *)
(***************************************************************************)
Unknown == [tag |-> "Unknown", names |-> <<>>, fields |-> <<>>]
EnumClass(names) == [tag |-> "EnumClass", names |-> names, fields |-> <<>>]
SealedClass(names, fields) == [tag |-> "SealedClass", names |-> names, fields |-> fields]

UnitFields == [kind |-> "Unit", list |-> <<>>]

\* FoldVariantInto without the back-fill of the earlier unit variants
FoldVariantInto_NoBackfill(enum_type, variant) ==
    CASE enum_type.tag = "Unknown" ->
            IF variant.fields.kind = "Unit"
            THEN EnumClass(<<variant.ident>>)
            ELSE SealedClass(<<variant.ident>>, <<variant.fields>>)
      [] enum_type.tag = "EnumClass" ->
            IF variant.fields.kind = "Unit"
            THEN EnumClass(Append(enum_type.names, variant.ident))
            ELSE SealedClass(Append(enum_type.names, variant.ident), <<variant.fields>>)
      [] enum_type.tag = "SealedClass" ->
            SealedClass(Append(enum_type.names, variant.ident),
                        Append(enum_type.fields, variant.fields))

\* FoldVariantInto where a unit variant takes a sealed class back to an enum class
FoldVariantInto_SealedForgets(enum_type, variant) ==
    IF variant.fields.kind = "Unit"
    THEN EnumClass(Append(enum_type.names, variant.ident))
    ELSE SealedClass(Append(enum_type.names, variant.ident),
                     Append([i \in 1..Len(enum_type.names) |->
                                IF i \in DOMAIN enum_type.fields
                                THEN enum_type.fields[i] ELSE UnitFields],
                            variant.fields))

\* the closure folded over the variants by parse_enum_variants
FoldVariantInto(enum_type, variant) ==
    CASE enum_type.tag = "Unknown" ->
            IF variant.fields.kind = "Unit"
            THEN EnumClass(<<variant.ident>>)
            ELSE SealedClass(<<variant.ident>>, <<variant.fields>>)
      [] enum_type.tag = "EnumClass" ->
            LET variant_names == Append(enum_type.names, variant.ident)
            IN  IF variant.fields.kind = "Unit"
                THEN EnumClass(variant_names)
                ELSE SealedClass(variant_names,
                        Append([i \in 1..(Len(variant_names) - 1) |-> UnitFields],
                               variant.fields))
      [] enum_type.tag = "SealedClass" ->
            SealedClass(Append(enum_type.names, variant.ident),
                        Append(enum_type.fields, variant.fields))

RECURSIVE FoldLeft(_, _)
FoldLeft(enum_type, variants) ==
    IF variants = <<>> THEN enum_type
    ELSE FoldLeft(FoldVariantInto(enum_type, Head(variants)), Tail(variants))

parse_enum_variants(variants) == FoldLeft(Unknown, variants)

\* the pattern after Self::Variant in the generated match arm
NoPattern == [kind |-> "Unit", names |-> <<>>]

generate_enum_parameters(variant_fields) ==
    [v \in DOMAIN variant_fields |->
        CASE variant_fields[v].kind = "Unit" -> NoPattern
          [] variant_fields[v].kind = "Named" ->
                [kind  |-> "Named",
                 names |-> [i \in DOMAIN variant_fields[v].list |->
                                variant_fields[v].list[i].ident]]
          [] variant_fields[v].kind = "Unnamed" ->
                [kind  |-> "Unnamed",
                 names |-> [i \in DOMAIN variant_fields[v].list |-> IndexName(i - 1)]]]

\* every lookup made with the name of the first variant
generate_enum_class_bodies_FirstName(jni_class_name_literal, variant_names) ==
    [v \in DOMAIN variant_names |->
        [kind            |-> "static_field",
         class           |-> ClassByName(jni_class_name_literal),
         field_name      |-> variant_names[1],
         field_signature |-> "L" \o jni_class_name_literal \o ";",
         value_type      |-> jni_class_name_literal]]

generate_enum_class_bodies(jni_class_name_literal, variant_names) ==
    [v \in DOMAIN variant_names |->
        [kind            |-> "static_field",
         class           |-> ClassByName(jni_class_name_literal),
         field_name      |-> variant_names[v],
         field_signature |-> "L" \o jni_class_name_literal \o ";",
         value_type      |-> jni_class_name_literal]]

\* the nested class named with "." in place of "$"
variant_class_name_Dotted(jni_class_name, variant_name_ident) ==
    jni_class_name \o "." \o variant_name_ident

variant_class_name(jni_class_name, variant_name_ident) ==
    jni_class_name \o "$" \o variant_name_ident

generate_sealed_class_bodies(jni_class_name_literal, variant_names, variant_fields) ==
    [v \in DOMAIN variant_names |->
        LET p == generate_struct_parameters(<<>>, variant_fields[v])
            body == generate_struct_or_struct_variant_into_java_body(
                        variant_class_name(jni_class_name_literal, variant_names[v]),
                        p.declarations, p.signatures, p.parameters)
        IN  [body EXCEPT !.lets =
                [i \in DOMAIN p.source_bindings |->
                    LetStmt(p.source_bindings[i], Binding(p.original_bindings[i]))] \o @]]

\* generate_enum_variants: None stands for the panic on an enum with no variant
generate_enum_variants(jni_class_name_literal, variants) ==
    LET enum_type == parse_enum_variants(variants)
    IN  CASE enum_type.tag = "Unknown" -> None
          [] enum_type.tag = "EnumClass" ->
                [names      |-> enum_type.names,
                 parameters |-> [v \in DOMAIN enum_type.names |-> NoPattern],
                 bodies     |-> generate_enum_class_bodies(jni_class_name_literal,
                                                           enum_type.names)]
          [] enum_type.tag = "SealedClass" ->
                [names      |-> enum_type.names,
                 parameters |-> generate_enum_parameters(enum_type.fields),
                 bodies     |-> generate_sealed_class_bodies(jni_class_name_literal,
                                    enum_type.names, enum_type.fields)]

\* the sealed-class bodies built with ParsedFields, each variant's own hints
\* being its container hints
generate_sealed_class_bodies_fields(jni_class_name_literal, variants, variant_fields) ==
    [v \in DOMAIN variants |->
        generate_struct_variant_into_java(
            ParsedFields_new(variant_fields[v], JnixAttributes_new(variants[v].attrs)),
            variant_class_name(jni_class_name_literal, variants[v].ident),
            TypeParameters)]

generate_enum_variants_fields(jni_class_name_literal, variants) ==
    LET generated == generate_enum_variants(jni_class_name_literal, variants)
        enum_type == parse_enum_variants(variants)
    IN  IF enum_type.tag = "SealedClass"
        THEN [generated EXCEPT !.bodies =
                generate_sealed_class_bodies_fields(jni_class_name_literal, variants,
                                                    enum_type.fields)]
        ELSE generated

(***************************************************************************)
(* Running a generated match arm on a value of that variant.               *)
(***************************************************************************)
PatternEnv(pattern, self, fields) ==
    [n \in { pattern.names[i] : i \in DOMAIN pattern.names } |->
        IF pattern.kind = "Named"
        THEN self[CHOOSE i \in DOMAIN fields.list : fields.list[i].ident = n]
        ELSE self[CHOOSE i \in DOMAIN pattern.names : pattern.names[i] = n]]

RunBody(body, pattern, self, fields) ==
    IF body.kind = "static_field"
    THEN [kind            |-> "static_field",
          class           |-> body.class,
          field_name      |-> body.field_name,
          field_signature |-> body.field_signature]
    ELSE LET env == RunLets(body.lets, PatternEnv(pattern, self, fields), self, fields)
         IN  [kind       |-> "new_object",
              bindings   |-> env,
              constructor_signature |->
                 "(" \o Concat([i \in DOMAIN body.signatures |-> env[body.signatures[i]]])
                     \o ")V",
              parameters |-> [i \in DOMAIN body.parameters |-> env[body.parameters[i]]],
              class      |-> body.class]

(***************************************************************************)
(* The bridge calls that end a generated body.  Each call can fail; the    *)
(* message of a panic is kept as the sequence of its parts.                *)
(***************************************************************************)
\* expect(concat!(..)) on env.new_object
new_object_expect_message(type_name_literal, class_name) ==
    <<"Failed to convert ", type_name_literal, " Rust type into ", class_name,
      " Java object">>

\* expect(concat!(..)) on get_static_field_id and get_static_field_unchecked
static_field_expect_message(type_name_literal, variant_name_literal, class_name) ==
    <<"Failed to convert ", type_name_literal, "::", variant_name_literal,
      " Rust enum variant into ", class_name, " Java object">>

\* panic!(concat!(..)) on a static field that holds no object
invalid_result_message(type_name_literal, variant_name_literal, class_name) ==
    <<"Conversion from ", type_name_literal, "::", variant_name_literal,
      " Rust enum variant into ", class_name,
      " Java object returned an invalid result.">>

\* the expect messages of JnixEnv::load_class
find_class_expect_message(class_name) ==
    <<"Failed to find ", class_name, " Java class">>

global_ref_expect_message ==
    <<"Failed to convert local reference to Java class object into a global reference">>

\* env.auto_local(object)
AutoLocal(object) == [tag |-> "auto_local", object |-> object]

\* what the bridge can answer to the calls of a body
BridgeOutcomes(body) ==
    IF body.kind = "static_field"
    THEN {"ok", "no_such_field", "field_read_failed", "not_an_object"}
    ELSE IF body.class.via = "get_class"
    THEN {"ok", "class_not_found", "global_ref_failed", "constructor_failed"}
    ELSE {"ok", "constructor_failed"}

Returned(bridge, value) ==
    [bridge |-> bridge, outcome |-> "returned", returned |-> value, message |-> <<>>]

PanickedWith(bridge, message) ==
    [bridge |-> bridge, outcome |-> "panicked", returned |-> None, message |-> message]

\* match variant { JValue::Object(object) => env.auto_local(object), _ => panic!(..) }
matched_variant(bridge, run, type_name_literal, class_name) ==
    IF bridge = "ok"
    THEN Returned(bridge, AutoLocal([class |-> run.class.name, static_field |-> run.field_name]))
    ELSE PanickedWith(bridge,
            invalid_result_message(type_name_literal, run.field_name, class_name))

\* the end of a generated body, given what RunBody computed and the bridge's answer
FinishBody(run, bridge, type_name_literal, class_name) ==
    IF run.kind = "static_field"
    THEN IF bridge \in {"no_such_field", "field_read_failed"}
         THEN PanickedWith(bridge,
                static_field_expect_message(type_name_literal, run.field_name, class_name))
         ELSE matched_variant(bridge, run, type_name_literal, class_name)
    ELSE CASE bridge = "class_not_found" ->
                PanickedWith(bridge, find_class_expect_message(run.class.name))
           [] bridge = "global_ref_failed" ->
                PanickedWith(bridge, global_ref_expect_message)
           [] bridge = "constructor_failed" ->
                PanickedWith(bridge, new_object_expect_message(type_name_literal, class_name))
           [] bridge = "ok" ->
                Returned(bridge, AutoLocal([class      |-> run.class.name,
                                            signature  |-> run.constructor_signature,
                                            parameters |-> run.parameters]))

(***************************************************************************)
(* The enumerations the derive macro is applied to.                        *)
(***************************************************************************)
VariantIdent(pos) == "V" \o ToString(pos)

VariantFieldChoices == [ty : {"i32"}, hint : {"none", "skip"}]

VariantAttributes(skip_all) ==
    IF skip_all THEN << <<Flag("skip_all")>> >> ELSE <<>>

HasHint(variant) ==
    \/ variant.attrs # <<>>
    \/ \E i \in DOMAIN variant.fields.list : variant.fields.list[i].attrs # <<>>

\* the plain variants are V, V {} and V(i32); every other variant is rich
Rich(variant) ==
    \/ HasHint(variant)
    \/ Len(variant.fields.list) > 1
    \/ variant.fields.kind = "Named" /\ Len(variant.fields.list) = 1
    \/ variant.fields.kind = "Unnamed" /\ Len(variant.fields.list) = 0

\* field lists with a field whose own name begins with _source_, in both orders
PrefixedFieldLists ==
    LET plain == [ident |-> FieldIdent(0), ty |-> "i32", attrs |-> <<>>]
        prefixed == [ident |-> "_source_" \o FieldIdent(0), ty |-> "i32", attrs |-> <<>>]
    IN  { [kind |-> "Named", list |-> <<plain @@ [pos |-> 0], prefixed @@ [pos |-> 1]>>],
          [kind |-> "Named", list |-> <<prefixed @@ [pos |-> 0], plain @@ [pos |-> 1]>>] }

\* the variants that can be declared at position pos; skip_all is put on
\* variants whose fields carry no hint of their own
VariantChoices(pos) ==
    { [ident |-> VariantIdent(pos), attrs |-> <<>>, fields |-> fs] :
        fs \in PrefixedFieldLists } \cup
    { v \in { [ident  |-> VariantIdent(pos),
               attrs  |-> VariantAttributes(sa),
               fields |-> fs] :
                sa \in BOOLEAN,
                fs \in UNION { FieldLists(k, VariantFieldChoices, MaxVariantFields) :
                                 k \in {"Unit", "Named", "Unnamed"} } } :
        v.attrs # <<>> =>
            /\ v.fields.kind # "Unit"
            /\ \A i \in DOMAIN v.fields.list : v.fields.list[i].attrs = <<>> }

(***************************************************************************)
(* JnixEnv: the process-wide class cache (jnix_env.rs).                    *)
(*   cache    CLASS_CACHE, a map from class name to global reference       *)
(*   lock     the thread holding the mutex of CLASS_CACHE, 0 when free     *)
(*   threads  each thread's call in progress: its position, the class name *)
(*            given to get_class, the number of names preload_classes has  *)
(*            taken, the reference its last get_class returned (0: none)   *)
(*   refs     the number of global references created so far; the next     *)
(*            load_class that succeeds returns reference refs + 1          *)
(*   loads    per class name, how often load_class ran inside get_class    *)
(*            (attempts) and how often it returned a class (resolved)      *)
(*   calls    the number of calls made so far                              *)
(***************************************************************************)
Threads == 1..NumThreads

CacheNames == {"java/util/ArrayList", "a/B"}

Some(value) == [none |-> FALSE, value |-> value]

EmptyCache == [n \in {} |-> 0]

\* a lookup that never finds the entry
cache_get_AlwaysMisses(map, class_name) == None

\* HashMap::get
cache_get(map, class_name) ==
    IF class_name \in DOMAIN map THEN Some(map[class_name]) ELSE None

\* HashMap::insert
cache_insert(map, class_name, class) == (class_name :> class) @@ map

\* a lock that never blocks
lock_acquirable_Unguarded(holder) == TRUE

\* Mutex::lock returns once no other thread holds the mutex
lock_acquirable(holder) == holder = 0

IdleThread == [pc |-> "idle", name |-> "", taken |-> 0, ret |-> 0]

CallGetClass(t) ==
    /\ phase = "cache"
    /\ threads[t].pc = "idle" /\ calls < MaxCalls
    /\ calls' = calls + 1
    /\ \E class_name \in CacheNames :
        threads' = [threads EXCEPT ![t] =
            [@ EXCEPT !.pc = "get_class:lock", !.name = class_name]]
    /\ UNCHANGED <<cache, lock, refs, loads>>
    /\ UNCHANGED genVars

GetClassLock(t) ==
    /\ phase = "cache"
    /\ threads[t].pc = "get_class:lock"
    /\ lock_acquirable(lock)
    /\ lock' = t
    /\ threads' = [threads EXCEPT ![t].pc = "get_class:locked"]
    /\ UNCHANGED <<cache, refs, loads>>
    /\ UNCHANGED <<genVars, calls>>

\* cache.get(name) finds the class: its clone is returned, the guard dropped
GetClassCached(t) ==
    /\ phase = "cache"
    /\ threads[t].pc = "get_class:locked"
    /\ cache_get(cache, threads[t].name) # None
    /\ threads' = [threads EXCEPT ![t].pc = "idle",
                                  ![t].ret = cache_get(cache, threads[t].name).value]
    /\ lock' = 0
    /\ UNCHANGED <<cache, refs, loads>>
    /\ UNCHANGED <<genVars, calls>>

GetClassMiss(t) ==
    /\ phase = "cache"
    /\ threads[t].pc = "get_class:locked"
    /\ cache_get(cache, threads[t].name) = None
    /\ threads' = [threads EXCEPT ![t].pc = "get_class:load"]
    /\ UNCHANGED <<cache, lock, refs, loads>>
    /\ UNCHANGED <<genVars, calls>>

\* load_class returns a new global reference, which is inserted and returned
GetClassLoaded(t) ==
    /\ phase = "cache"
    /\ threads[t].pc = "get_class:load"
    /\ refs' = refs + 1
    /\ cache' = cache_insert(cache, threads[t].name, refs + 1)
    /\ loads' = [loads EXCEPT ![threads[t].name] =
                    [attempts |-> @.attempts + 1, resolved |-> @.resolved + 1]]
    /\ threads' = [threads EXCEPT ![t].pc = "idle", ![t].ret = refs + 1]
    /\ lock' = 0
    /\ UNCHANGED <<genVars, calls>>

\* a panic of load_class that leaves the mutex locked
GetClassLoadFailed_KeepsLock(t) ==
    /\ phase = "cache"
    /\ threads[t].pc = "get_class:load"
    /\ loads' = [loads EXCEPT ![threads[t].name].attempts = @ + 1]
    /\ threads' = [threads EXCEPT ![t].pc = "panicked"]
    /\ UNCHANGED <<cache, lock, refs>>
    /\ UNCHANGED <<genVars, calls>>

\* load_class panics (find_class or new_global_ref failed): the unwinding
\* drops the guard, nothing is inserted
GetClassLoadFailed(t) ==
    /\ phase = "cache"
    /\ threads[t].pc = "get_class:load"
    /\ loads' = [loads EXCEPT ![threads[t].name].attempts = @ + 1]
    /\ threads' = [threads EXCEPT ![t].pc = "panicked"]
    /\ lock' = 0
    /\ UNCHANGED <<cache, refs>>
    /\ UNCHANGED <<genVars, calls>>

\* class_names is an iterator: each turn of the loop takes its next item
CallPreloadClasses(t) ==
    /\ phase = "cache"
    /\ threads[t].pc = "idle" /\ calls < MaxCalls
    /\ calls' = calls + 1
    /\ threads' = [threads EXCEPT ![t] =
            [@ EXCEPT !.pc = "preload_classes:lock", !.taken = 0]]
    /\ UNCHANGED <<cache, lock, refs, loads>>
    /\ UNCHANGED genVars

PreloadLock(t) ==
    /\ phase = "cache"
    /\ threads[t].pc = "preload_classes:lock"
    /\ lock_acquirable(lock)
    /\ lock' = t
    /\ threads' = [threads EXCEPT ![t].pc = "preload_classes:loop"]
    /\ UNCHANGED <<cache, refs, loads>>
    /\ UNCHANGED <<genVars, calls>>

\* one turn of the loop: load_class, then cache.insert
PreloadLoaded(t) ==
    /\ phase = "cache"
    /\ threads[t].pc = "preload_classes:loop"
    /\ threads[t].taken < MaxPreload
    /\ \E class_name \in CacheNames :
        /\ cache' = cache_insert(cache, class_name, refs + 1)
        /\ threads' = [threads EXCEPT ![t].taken = @ + 1]
    /\ refs' = refs + 1
    /\ UNCHANGED <<lock, loads>>
    /\ UNCHANGED <<genVars, calls>>

\* load_class panics for the next class name
PreloadLoadFailed(t) ==
    /\ phase = "cache"
    /\ threads[t].pc = "preload_classes:loop"
    /\ threads[t].taken < MaxPreload
    /\ threads' = [threads EXCEPT ![t].pc = "panicked"]
    /\ lock' = 0
    /\ UNCHANGED <<cache, refs, loads>>
    /\ UNCHANGED <<genVars, calls>>

\* the iterator is exhausted
PreloadReturn(t) ==
    /\ phase = "cache"
    /\ threads[t].pc = "preload_classes:loop"
    /\ threads' = [threads EXCEPT ![t].pc = "idle"]
    /\ lock' = 0
    /\ UNCHANGED <<cache, refs, loads>>
    /\ UNCHANGED <<genVars, calls>>

EnumDecl(class_name, variants) ==
    [item     |-> "enum",
     ident    |-> "E",
     attrs    |-> ContainerAttributes(class_name, FALSE),
     variants |-> variants]

\* the enumerations explored hold any number of plain variants and at most
\* one rich variant, at any position
AtMostOneRichVariant(variants) ==
    \A v, w \in DOMAIN variants : Rich(variants[v]) /\ Rich(variants[w]) => v = w

(***************************************************************************)
(* The conversions of the standard-library types that yield an object      *)
(* (into_java/implementations/std.rs).  A type is a constructor and, for   *)
(* Option and Vec, its argument; a descriptor is kept as the sequence of   *)
(* its parts, so that a missing part shows.                                *)
(***************************************************************************)
StdBaseTypes == {"&[u8]", "[u8; N]", "String", "Ipv4Addr", "Ipv6Addr", "IpAddr", "SocketAddr"}

StdType(con, arg) == [con |-> con, arg |-> arg]

RECURSIVE StdTypes(_)
StdTypes(depth) ==
    IF depth = 0 THEN { StdType(con, None) : con \in StdBaseTypes }
    ELSE LET inner == StdTypes(depth - 1)
         IN  inner \cup { StdType(con, arg) : con \in {"Option", "Vec"}, arg \in inner }

StdValue(ty, variant, items) == [ty |-> ty, variant |-> variant, items |-> items]

\* the values of a type: Some or None, V4 or V6, a Vec of no or one element
RECURSIVE StdValues(_)
StdValues(ty) ==
    CASE ty.con = "Option" ->
            { StdValue(ty, "None", <<>>) } \cup
            { StdValue(ty, "Some", <<t>>) : t \in StdValues(ty.arg) }
      [] ty.con = "Vec" ->
            { StdValue(ty, "", <<>>) } \cup
            { StdValue(ty, "", <<element>>) : element \in StdValues(ty.arg) }
      [] ty.con \in {"IpAddr", "SocketAddr"} ->
            { StdValue(ty, variant, <<>>) : variant \in {"V4", "V6"} }
      [] OTHER -> { StdValue(ty, "", <<>>) }

\* const JNI_SIGNATURE of each implementation
RECURSIVE std_JNI_SIGNATURE(_)
std_JNI_SIGNATURE(ty) ==
    CASE ty.con \in {"&[u8]", "[u8; N]"} -> <<"[", "B">>
      [] ty.con = "Option"     -> std_JNI_SIGNATURE(ty.arg)
      [] ty.con = "Vec"        -> <<"L", "java/util/ArrayList", ";">>
      [] ty.con = "String"     -> <<"L", "java/lang/String", ";">>
      [] ty.con \in {"Ipv4Addr", "Ipv6Addr", "IpAddr"} ->
                                  <<"L", "java/net/InetAddress", ";">>
      [] ty.con = "SocketAddr" -> <<"L", "java/net/InetSocketAddress">>

\* what the bridge hands back: an object of a class, made by a constructor
\* where new_object made it, an array of an element type, or null
JavaObject(class, constructor, elements) ==
    [kind |-> "object", class |-> class, constructor |-> constructor,
     elements |-> elements]

JavaArray(element) ==
    [kind |-> "array", class |-> element, constructor |-> "", elements |-> <<>>]

JavaNull == [kind |-> "null", class |-> "", constructor |-> "", elements |-> <<>>]

\* InetAddress.getByAddress(octets)
ipvx_addr_into_java == JavaObject("java/net/InetAddress", "", <<>>)

\* the object inside the handle that into_java returns
RECURSIVE std_into_java(_)
std_into_java(self) ==
    CASE self.ty.con \in {"&[u8]", "[u8; N]"} -> JavaArray("B")
      [] self.ty.con = "Option" ->
            IF self.variant = "Some" THEN std_into_java(self.items[1]) ELSE JavaNull
      [] self.ty.con = "Vec" ->
            JavaObject("java/util/ArrayList", "(I)V",
                       [i \in DOMAIN self.items |-> std_into_java(self.items[i])])
      [] self.ty.con = "String" -> JavaObject("java/lang/String", "", <<>>)
      [] self.ty.con \in {"Ipv4Addr", "Ipv6Addr", "IpAddr"} -> ipvx_addr_into_java
      [] self.ty.con = "SocketAddr" ->
            JavaObject("java/net/InetAddress", "(Ljava/net/InetAddress;I)V", <<>>)

StdInputs == UNION { StdValues(ty) : ty \in StdTypes(MaxNesting) }

InitCacheIdle ==
    /\ cache = EmptyCache
    /\ lock = 0
    /\ threads = [t \in Threads |-> IdleThread]
    /\ refs = 0
    /\ loads = [n \in CacheNames |-> [attempts |-> 0, resolved |-> 0]]
    /\ calls = 0

InitGenIdle ==
    /\ pc = "none"
    /\ decl = None
    /\ acc = Unknown
    /\ generator = "none"
    /\ code = None
    /\ impl = None
    /\ subject = 0
    /\ result = None

InitCache ==
    /\ phase = "cache"
    /\ InitGenIdle
    /\ InitCacheIdle

InitStruct ==
    /\ phase = "struct"
    /\ pc = "declared"
    /\ decl \in StructDecls
    /\ acc = Unknown
    /\ generator = "none"
    /\ code = None
    /\ impl = None
    /\ subject = 0
    /\ result = None
    /\ InitCacheIdle

InitEnum ==
    /\ phase = "enum"
    /\ pc = "folding"
    /\ decl \in { EnumDecl(cn, <<>>) : cn \in ClassNames }
    /\ acc = Unknown
    /\ generator = "none"
    /\ code = None
    /\ impl = None
    /\ subject = 0
    /\ result = None
    /\ InitCacheIdle

InitGenerics ==
    /\ phase = "generics"
    /\ pc = "declared"
    /\ decl \in GenericsDecls
    /\ acc = Unknown
    /\ generator = "none"
    /\ code = None
    /\ impl = None
    /\ subject = 0
    /\ result = None
    /\ InitCacheIdle

InitStd ==
    /\ phase = "std"
    /\ pc = "given"
    /\ decl \in StdInputs
    /\ acc = Unknown
    /\ generator = "none"
    /\ code = None
    /\ impl = None
    /\ subject = 0
    /\ result = None
    /\ InitCacheIdle

\* value.into_java(env)
ConvertStd ==
    /\ phase = "std" /\ pc = "given"
    /\ impl' = [JNI_SIGNATURE |-> std_JNI_SIGNATURE(decl.ty)]
    /\ result' = AutoLocal(std_into_java(decl))
    /\ pc' = "returned"
    /\ UNCHANGED <<decl, acc, generator, code, subject>>
    /\ UNCHANGED <<phase, cacheVars>>

PrepareGenerics ==
    /\ phase = "generics" /\ pc = "declared"
    /\ code' = prepare_generics(decl)
    /\ pc' = "prepared"
    /\ UNCHANGED <<decl, acc, generator, impl, subject, result>>
    /\ UNCHANGED <<phase, cacheVars>>

DeriveStructLib ==
    /\ phase = "struct" /\ pc = "declared"
    /\ generator' = "lib"
    /\ code' = derive_into_java_lib(decl)
    /\ impl' = IF derive_into_java_lib(decl) = None THEN None ELSE derive_impl_items(decl)
    /\ pc' = IF derive_into_java_lib(decl) = None THEN "aborted" ELSE "derived"
    /\ UNCHANGED <<decl, acc, subject, result>>
    /\ UNCHANGED <<phase, cacheVars>>

DeriveStructFields ==
    /\ phase = "struct" /\ pc = "declared"
    /\ generator' = "fields"
    /\ code' = derive_into_java_fields(decl)
    /\ impl' = IF derive_into_java_fields(decl) = None THEN None ELSE derive_impl_items(decl)
    /\ pc' = IF derive_into_java_fields(decl) = None THEN "aborted" ELSE "derived"
    /\ UNCHANGED <<decl, acc, subject, result>>
    /\ UNCHANGED <<phase, cacheVars>>

ConvertStruct ==
    /\ phase = "struct" /\ pc = "derived"
    /\ \E bridge \in BridgeOutcomes(code) :
        LET run == RunBody(code, NoPattern, ValueOf(decl.fields), decl.fields)
        IN  result' = FinishBody(run, bridge, decl.ident,
                                 Join(parse_java_class_name(decl.attrs))) @@ run
    /\ pc' = "converted"
    /\ UNCHANGED <<decl, acc, generator, code, impl, subject>>
    /\ UNCHANGED <<phase, cacheVars>>

\* one step of the fold of parse_enum_variants: the next variant is consumed
FoldVariant ==
    /\ phase = "enum" /\ pc = "folding"
    /\ Len(decl.variants) < MaxVariants
    /\ \E variant \in VariantChoices(Len(decl.variants)) :
        /\ AtMostOneRichVariant(Append(decl.variants, variant))
        /\ decl' = [decl EXCEPT !.variants = Append(@, variant)]
        /\ acc' = FoldVariantInto(acc, variant)
    /\ UNCHANGED <<pc, generator, code, impl, subject, result>>
    /\ UNCHANGED <<phase, cacheVars>>

\* the variants are exhausted: generate_enum_variants builds the match arms
DeriveEnumLib ==
    /\ phase = "enum" /\ pc = "folding"
    /\ generator' = "lib"
    /\ LET generated == generate_enum_variants(jni_class_name_of(decl.attrs),
                                               decl.variants)
       IN  /\ code' = generated
           /\ impl' = IF generated = None THEN None ELSE derive_impl_items(decl)
           /\ pc' = IF generated = None THEN "aborted" ELSE "derived"
    /\ UNCHANGED <<decl, acc, subject, result>>
    /\ UNCHANGED <<phase, cacheVars>>

DeriveEnumFields ==
    /\ phase = "enum" /\ pc = "folding"
    /\ acc.tag = "SealedClass"
    /\ generator' = "fields"
    /\ code' = generate_enum_variants_fields(jni_class_name_of(decl.attrs),
                                             decl.variants)
    /\ impl' = derive_impl_items(decl)
    /\ pc' = "derived"
    /\ UNCHANGED <<decl, acc, subject, result>>
    /\ UNCHANGED <<phase, cacheVars>>

\* into_java on a value of variant v runs the arm of v
ConvertEnum ==
    /\ phase = "enum" /\ pc = "derived"
    /\ \E v \in DOMAIN code.names :
        /\ subject' = v
        /\ \E bridge \in BridgeOutcomes(code.bodies[v]) :
            LET run == RunBody(code.bodies[v], code.parameters[v],
                               ValueOf(decl.variants[v].fields), decl.variants[v].fields)
            IN  result' = FinishBody(run, bridge, decl.ident,
                                     Join(parse_java_class_name(decl.attrs))) @@ run
    /\ pc' = "converted"
    /\ UNCHANGED <<decl, acc, generator, code, impl>>
    /\ UNCHANGED <<phase, cacheVars>>

Init == InitStruct \/ InitEnum \/ InitCache \/ InitGenerics \/ InitStd

Next ==
    \/ ConvertStd
    \/ PrepareGenerics
    \/ DeriveStructLib
    \/ DeriveStructFields
    \/ ConvertStruct
    \/ FoldVariant
    \/ DeriveEnumLib
    \/ DeriveEnumFields
    \/ ConvertEnum
    \/ \E t \in Threads : CallGetClass(t)
    \/ \E t \in Threads : GetClassLock(t)
    \/ \E t \in Threads : GetClassCached(t)
    \/ \E t \in Threads : GetClassMiss(t)
    \/ \E t \in Threads : GetClassLoaded(t)
    \/ \E t \in Threads : GetClassLoadFailed(t)
    \/ \E t \in Threads : CallPreloadClasses(t)
    \/ \E t \in Threads : PreloadLock(t)
    \/ \E t \in Threads : PreloadLoaded(t)
    \/ \E t \in Threads : PreloadLoadFailed(t)
    \/ \E t \in Threads : PreloadReturn(t)

Spec == Init /\ [][Next]_vars

(***************************************************************************)
(* What the declaration says, read off the declaration itself.             *)
(***************************************************************************)
MarkedWith(attributes, flag) ==
    \E a \in DOMAIN attributes : \E j \in DOMAIN attributes[a] :
        attributes[a][j].kind = "flag" /\ attributes[a][j].key = flag

HasSetting(attributes, key) ==
    \E a \in DOMAIN attributes : \E j \in DOMAIN attributes[a] :
        attributes[a][j].kind = "str" /\ attributes[a][j].key = key

IsRetained(field) == ~MarkedWith(field.attrs, "skip")

RetainedFields(attributes, fields) ==
    IF MarkedWith(attributes, "skip_all") THEN <<>>
    ELSE SelectSeq(fields.list, IsRetained)

\* a field without transform whose descriptor is the one of its own type
PlainField(field) ==
    /\ ~HasSetting(field.attrs, "target_class")
    /\ ~HasSetting(field.attrs, "map")
    /\ field.ty \notin TypeParameters

DeclaredName(fields, field) ==
    IF fields.kind = "Named" THEN field.ident ELSE IndexName(field.pos)

\* the slash-delimited form of the declared class name
SlashName(attributes) ==
    LET class_name == (CHOOSE a \in { attributes[i] : i \in DOMAIN attributes } :
                          a[1].key = "class_name")[1].value
    IN  IF class_name = <<"a", ".", "B">> THEN "a/B" ELSE "p/q/C"

TargetDescriptor == "Lj/U;"

Generated == pc \in {"derived", "converted"}

\* the container whose fields the conversion at hand converts
SubjectAttributes ==
    IF phase = "struct" THEN decl.attrs ELSE decl.variants[subject].attrs
SubjectFields ==
    IF phase = "struct" THEN decl.fields ELSE decl.variants[subject].fields
SubjectBody ==
    IF phase = "struct" THEN code ELSE code.bodies[subject]

(***************************************************************************)
(* The claims.                                                             *)
(***************************************************************************)

\* C1: for a structure whose fields carry no transform, the constructor
\* descriptor is "(" + the descriptors of the retained fields in declaration
\* order + ")V", and the arguments are the handles of exactly those fields in
\* that order.  (Stated for fields whose descriptor is that of their type.)
C1_ConstructorDescriptor ==
    (phase = "struct" /\ pc = "converted") =>
        LET kept == RetainedFields(decl.attrs, decl.fields)
        IN  (\A i \in DOMAIN kept : PlainField(kept[i])) =>
              /\ result.constructor_signature =
                    "(" \o Concat([i \in DOMAIN kept |-> JNI_SIGNATURE(kept[i].ty)])
                        \o ")V"
              /\ result.parameters =
                    [i \in DOMAIN kept |-> Handle(FieldValue(kept[i]))]

\* C2: in a positional field list a skipped field is absent from the
\* descriptor and the arguments, and a retained field keeps the name _<i> and
\* the member access .<i> of its position among all declared fields.
C2_PositionalIndexKept ==
    (phase = "struct" /\ Generated /\ decl.fields.kind = "Unnamed") =>
        LET kept == RetainedFields(decl.attrs, decl.fields)
        IN  /\ Len(code.signatures) = Len(kept)
            /\ Len(code.parameters) = Len(kept)
            /\ \A i \in DOMAIN kept :
                  code.lets[i] = LetStmt("_source_" \o IndexName(kept[i].pos),
                                         SelfMember(MemberUnnamed(kept[i].pos)))

\* C3: with skip_all on a structure or on a variant, no field is converted:
\* the constructor descriptor is "()V" and the argument list is empty.
C3_SkipAllEmptyConstructor ==
    (pc = "converted" /\ result.kind = "new_object"
        /\ MarkedWith(SubjectAttributes, "skip_all")) =>
            /\ SubjectBody.lets = <<>>
            /\ result.constructor_signature = "()V"
            /\ result.parameters = <<>>

C5_ClassesThroughCache ==
    Generated =>
        IF phase = "struct"
        THEN code.class.via = "get_class"
        ELSE \A v \in DOMAIN code.bodies : code.bodies[v].class.via = "get_class"

\* C6 as claimed: load_class runs inside get_class at most once for a class
\* name, whatever the interleaving.
C6_LoadRunsAtMostOnce ==
    phase = "cache" => \A n \in CacheNames : loads[n].attempts <= 1

\* C6 as amended: get_class resolves a class name successfully at most once,
\* whatever the interleaving, and the class it resolved is cached from then on.
C6_ResolvedAtMostOnce ==
    phase = "cache" =>
        \A n \in CacheNames :
            /\ loads[n].resolved <= 1
            /\ loads[n].resolved = 1 => n \in DOMAIN cache

C6_Witness ==
    /\ phase = "cache"
    /\ \E n \in CacheNames : \E t, u \in Threads :
        /\ t # u
        /\ loads[n].resolved = 1
        /\ threads[t].pc = "idle" /\ threads[u].pc = "idle"
        /\ threads[t].name = n /\ threads[u].name = n
        /\ threads[t].ret # 0 /\ threads[t].ret = threads[u].ret

\* C7 as claimed: a class name once cached stays cached and keeps the
\* reference first resolved.
C7_EntriesNeverChange ==
    [][\A n \in DOMAIN cache : n \in DOMAIN cache' /\ cache'[n] = cache[n]]_vars

\* C7 as amended: a class name once cached stays cached, and only a
\* preload_classes call at work replaces the reference it maps to; get_class
\* never does.
C7_EntriesStay ==
    [][\A n \in DOMAIN cache :
          /\ n \in DOMAIN cache'
          /\ cache'[n] # cache[n] =>
                \E t \in Threads : /\ threads[t].pc = "preload_classes:loop"
                                   /\ threads'[t].taken = threads[t].taken + 1]_vars

C7_Witness ==
    /\ phase = "cache"
    /\ \E t \in Threads :
        /\ threads[t].pc = "idle" /\ threads[t].ret # 0
        /\ threads[t].name \in DOMAIN cache
        /\ cache[threads[t].name] # threads[t].ret

\* C8: in a sealed-hierarchy variant the source binding of each retained
\* field holds the value of that same field: _source_<name> for a named
\* field, _source__<index> of its original position for a positional one.
C8_SourceBindingOfSameField ==
    (phase = "enum" /\ pc = "converted" /\ result.kind = "new_object") =>
        LET kept == RetainedFields(SubjectAttributes, SubjectFields)
        IN  \A i \in DOMAIN kept :
                LET source == "_source_" \o DeclaredName(SubjectFields, kept[i])
                IN  /\ source \in DOMAIN result.bindings
                    /\ result.bindings[source] = FieldValue(kept[i])

\* C9: the signature binding of a retained field is the target_class
\* descriptor when the field has that hint, else "Ljava/lang/Object;" when its
\* type mentions a type parameter, else jni_signature() of the converted value.
C9_SignaturePriority ==
    (phase = "struct" /\ Generated /\ decl.fields.kind = "Named") =>
        LET kept == RetainedFields(decl.attrs, decl.fields)
        IN  \A i \in DOMAIN kept :
                \E l \in DOMAIN code.lets :
                    code.lets[l] =
                        LetStmt("_signature_" \o kept[i].ident,
                                IF HasSetting(kept[i].attrs, "target_class")
                                THEN Literal(TargetDescriptor)
                                ELSE IF kept[i].ty \in TypeParameters
                                THEN Literal("Ljava/lang/Object;")
                                ELSE JniSignatureOf("_converted_" \o kept[i].ident))

\* C10: the class that constructs the object of a sealed-hierarchy variant is
\* named by the declaring class's slash-delimited name, "$" and the variant's
\* identifier, nothing else.
C10_VariantClassName ==
    (phase = "enum" /\ Generated /\ acc.tag = "SealedClass") =>
        /\ \A v \in DOMAIN decl.variants :
              code.bodies[v].class.name =
                  SlashName(decl.attrs) \o "$" \o decl.variants[v].ident
        /\ pc = "converted" =>
              result.class.name =
                  SlashName(decl.attrs) \o "$" \o decl.variants[subject].ident

C10_Witness ==
    /\ phase = "enum" /\ pc = "converted" /\ result.kind = "new_object"
    /\ Len(decl.variants) = 3 /\ subject = 2
    /\ result.class.name = "p/q/C$V1"

(***************************************************************************)
(* The `map` hint of a field, read off the declaration.                    *)
(***************************************************************************)
HasMap(field) ==
    \E a \in DOMAIN field.attrs : \E j \in DOMAIN field.attrs[a] :
        field.attrs[a][j].key = "map"

MapItem(field) ==
    CHOOSE item \in UNION { { field.attrs[a][j] : j \in DOMAIN field.attrs[a] } :
                            a \in DOMAIN field.attrs } : item.key = "map"

\* the transform written with one parameter, or "" for any other `map` value
WrittenParameterType(field) ==
    IF MapItem(field).kind # "str" THEN "none"
    ELSE IF MapItem(field).value = <<"|", "v", "|", "f">> THEN "untyped"
    ELSE IF MapItem(field).value = <<"|", "v", ":", "i64", "|", "f">> THEN "i64"
    ELSE "none"

GoodMap(field) == HasMap(field) /\ WrittenParameterType(field) # "none"
BadMap(field) == HasMap(field) /\ WrittenParameterType(field) = "none"

FieldNames(fields) ==
    { DeclaredName(fields, fields.list[i]) : i \in DOMAIN fields.list }
        \cup { IndexName(i - 1) : i \in DOMAIN fields.list }

CallLets(body) == { l \in DOMAIN body.lets : body.lets[l].expr.op = "call" }

\* C11: a `map` transform with one parameter is emitted with that parameter
\* annotated: with the type the user wrote when there is one, with the
\* field's own declared type otherwise; the closure is called on the source
\* binding of a field and its result is the `converted` binding of that field.
C11_MapParameterType ==
    (phase = "struct" /\ Generated) =>
        LET kept == RetainedFields(decl.attrs, decl.fields)
            mapped == { i \in DOMAIN kept : GoodMap(kept[i]) }
        IN  /\ Cardinality(CallLets(code)) = Cardinality(mapped)
            /\ \A i \in mapped :
                 \E l \in CallLets(code) : \E name \in FieldNames(decl.fields) :
                    code.lets[l] =
                        LetStmt("_converted_" \o name,
                            CallClosure(
                                [inputs |-> << [pat |-> "v",
                                                ty  |-> IF WrittenParameterType(kept[i]) = "untyped"
                                                        THEN kept[i].ty
                                                        ELSE WrittenParameterType(kept[i])] >>,
                                 body   |-> "f"],
                                "_source_" \o name))
            /\ pc = "converted" =>
                 \A l \in CallLets(code) :
                    result.bindings[code.lets[l].name] =
                        ApplyClosure(code.lets[l].expr.closure,
                                     result.bindings[code.lets[l].expr.name])

C11_Witness ==
    /\ phase = "struct" /\ pc = "converted"
    /\ \E l \in CallLets(code) :
        /\ code.lets[l].expr.closure.inputs = << [pat |-> "v", ty |-> "i32"] >>
        /\ result.bindings[code.lets[l].name].by = "f"

RequiredBounds(prepared, ident) ==
    LET on == SelectSeq(prepared.where_clause, LAMBDA c : c.ident = ident)
    IN  Flatten([i \in DOMAIN on |-> on[i].bounds])

\* the bounds the declaration puts on the parameter: those after its colon,
\* then those of the where clause
DeclaredBounds(generics, param) ==
    LET on == SelectSeq(generics.where_clause, LAMBDA c : c.ident = param.ident)
    IN  param.bounds \o Flatten([i \in DOMAIN on |-> on[i].bounds])

IsSubSeq(short, long) ==
    \E pick \in [DOMAIN short -> DOMAIN long] :
        /\ \A i, j \in DOMAIN short : i < j => pick[i] < pick[j]
        /\ \A i \in DOMAIN short : long[pick[i]] = short[i]

\* C13: prepare_generics gives the conversion bound to every type parameter
\* declared without a bound; every bound declared on a type or lifetime
\* parameter is still required afterwards, in its order; and the declared
\* parameters are all there, in their order.
C13_GenericsAdditiveOnly ==
    (phase = "generics" /\ pc = "prepared") =>
        LET idents == [i \in DOMAIN decl.params |-> decl.params[i].ident]
        IN  /\ \A i \in DOMAIN decl.params :
                 (decl.params[i].kind = "type" /\ ~decl.params[i].colon) =>
                    \E b \in DOMAIN RequiredBounds(code, decl.params[i].ident) :
                        RequiredBounds(code, decl.params[i].ident)[b] = IntoJavaBound
            /\ \A i \in DOMAIN decl.params :
                 decl.params[i].kind \in {"type", "lifetime"} =>
                    IsSubSeq(DeclaredBounds(decl, decl.params[i]),
                             RequiredBounds(code, decl.params[i].ident))
            /\ code.impl_generics = <<"'borrow", "'env">> \o idents
            /\ idents # <<>> => code.type_generics = idents

AllAttributes ==
    { decl.attrs[a] : a \in DOMAIN decl.attrs } \cup
    UNION { { decl.fields.list[i].attrs[a] : a \in DOMAIN decl.fields.list[i].attrs } :
            i \in DOMAIN decl.fields.list }

\* C15: a jnix attribute whose contents are no list of hints aborts the
\* generation and is never ignored; an attribute listing several hints has
\* each of them recognised, so a field marked skip in it is not converted.
C15_AttributesParsedOrFatal ==
    (phase = "struct" /\ pc # "declared") =>
        /\ (\E attribute \in AllAttributes :
                \E j \in DOMAIN attribute : attribute[j].kind = "malformed") =>
                    (pc = "aborted" /\ code = None)
        /\ Generated =>
                Len(code.signatures) = Len(RetainedFields(decl.attrs, decl.fields))

\* C16: when the type-level hints hold no class_name setting, or one whose
\* value is no string literal, the derivation aborts: no body and no
\* implementation item is produced.
C16_MissingClassNameAborts ==
    (phase = "struct" /\ pc # "declared") =>
        (~HasSetting(decl.attrs, "class_name") =>
            (pc = "aborted" /\ code = None /\ impl = None))

C16_Witness ==
    /\ phase = "struct" /\ pc = "aborted" /\ generator = "lib"
    /\ decl.attrs = << <<IntSetting("class_name")>> >>
    /\ Len(decl.fields.list) = 1

\* C17: converting a variant of a simple enumeration looks up the static
\* field of the declaring class that is named by the variant's identifier,
\* with the descriptor "L<class>;" of that class; a retrieved object is
\* returned in a scoped handle, a value of any other shape ends in a panic and
\* nothing is returned.
C17_StaticFieldLookup ==
    (phase = "enum" /\ pc = "converted" /\ result.kind = "static_field") =>
        /\ result.class.name = SlashName(decl.attrs)
        /\ result.field_name = decl.variants[subject].ident
        /\ result.field_signature = "L" \o SlashName(decl.attrs) \o ";"
        /\ result.bridge = "ok" =>
              /\ result.outcome = "returned"
              /\ result.returned =
                    AutoLocal([class        |-> SlashName(decl.attrs),
                               static_field |-> decl.variants[subject].ident])
        /\ result.bridge = "not_an_object" =>
              (result.outcome = "panicked" /\ result.returned = None)

C17_Witness ==
    /\ phase = "enum" /\ pc = "converted" /\ result.kind = "static_field"
    /\ Len(decl.variants) = 3 /\ subject = 3
    /\ result.bridge = "not_an_object" /\ result.outcome = "panicked"

\* C18: a generated conversion either returns a scoped handle to the
\* constructed object or panics; when the bridge fails nothing is returned,
\* and the panic message names the source type and the target class.
C18_ReturnsOrAbortsNamingBoth ==
    (phase \in {"struct", "enum"} /\ pc = "converted") =>
        \/ /\ result.bridge = "ok"
           /\ result.outcome = "returned"
           /\ result.returned.tag = "auto_local"
        \/ /\ result.bridge # "ok"
           /\ result.outcome = "panicked"
           /\ result.returned = None
           /\ \E i \in DOMAIN result.message : result.message[i] = decl.ident
           /\ \E i \in DOMAIN result.message :
                result.message[i] \in { Join(parse_java_class_name(decl.attrs)),
                                        SlashName(decl.attrs), result.class.name }

\* the position of an accumulator in the order undetermined, simple, sealed
TagRank(enum_type) ==
    CASE enum_type.tag = "Unknown" -> 0
      [] enum_type.tag = "EnumClass" -> 1
      [] enum_type.tag = "SealedClass" -> 2

\* C19: during the fold over the variants the accumulator only moves forward
\* through undetermined, simple, sealed; after each step it holds exactly the
\* identifiers of the variants consumed so far, in declaration order; in the
\* sealed state the names and the field lists have the same length and the
\* i-th field list is that of the i-th variant.
C19_FoldMovesForward ==
    /\ [](phase = "enum" =>
            /\ acc.names = [v \in DOMAIN decl.variants |-> decl.variants[v].ident]
            /\ (acc.tag = "Unknown") <=> (decl.variants = <<>>)
            /\ acc.tag = "SealedClass" =>
                  /\ Len(acc.fields) = Len(acc.names)
                  /\ \A i \in DOMAIN acc.fields :
                        acc.fields[i] = decl.variants[i].fields)
    /\ [][phase = "enum" =>
            /\ TagRank(acc') >= TagRank(acc)
            /\ acc' # acc =>
                  /\ Len(acc'.names) = Len(acc.names) + 1
                  /\ SubSeq(acc'.names, 1, Len(acc.names)) = acc.names
                  /\ acc'.tag # "Unknown"]_vars

C19_Witness ==
    /\ phase = "enum" /\ pc = "folding" /\ Len(decl.variants) = 3
    /\ decl.variants[1].fields.kind = "Named"
    /\ decl.variants[2].fields.kind = "Unit"
    /\ decl.variants[3].fields.kind = "Unit"
    /\ acc.tag = "SealedClass"
    /\ acc.fields[3] = UnitFields

\* the names a generated body binds with `let`, in order
LetNames(body) == [j \in DOMAIN body.lets |-> body.lets[j].name]

\* C20: the identifiers the generator introduces for a field list are
\* pairwise distinct and none equals a name bound by the variant's pattern,
\* so no `let` shadows a value read later: every argument handed to the
\* constructor is made from the value of its own field.
C20_NoShadowing ==
    (phase = "enum" /\ pc = "converted" /\ result.kind = "new_object") =>
        LET names == LetNames(SubjectBody)
            pattern == code.parameters[subject]
            fields == decl.variants[subject].fields
        IN  /\ \A j, k \in DOMAIN names : names[j] = names[k] => j = k
            /\ \A j \in DOMAIN names, k \in DOMAIN pattern.names :
                    names[j] # pattern.names[k]
            /\ (\A i \in DOMAIN fields.list : fields.list[i].attrs = <<>>
                    /\ decl.variants[subject].attrs = <<>>) =>
                  result.parameters =
                        [i \in DOMAIN fields.list |-> Handle(FieldValue(fields.list[i]))]

\* thread t is inside the critical section of get_class or preload_classes
InCriticalSection(t) ==
    threads[t].pc \in {"get_class:locked", "get_class:load", "preload_classes:loop"}

\* C21: when load_class panics inside get_class or preload_classes, the step
\* releases the cache lock and inserts nothing: the cache is what it was
\* before the failing load, with the names preload_classes loaded earlier in
\* the same call; the lock is only ever held by a thread inside its critical
\* section, never by a panicked one, so later callers are not blocked.
C21_FailedLoadReleasesLock ==
    /\ [](phase = "cache" =>
            /\ lock # 0 => InCriticalSection(lock)
            /\ \A t \in Threads : InCriticalSection(t) => lock = t)
    /\ [][phase = "cache" =>
            \A t \in Threads :
                (threads[t].pc # "panicked" /\ threads'[t].pc = "panicked") =>
                    /\ lock = t /\ lock' = 0
                    /\ cache' = cache
                    /\ refs' = refs]_vars

\* a thread panicked in preload_classes after loading one name; the name is
\* cached and the other thread then took the lock for a get_class call
C21_Witness ==
    /\ phase = "cache"
    /\ threads[1].pc = "panicked" /\ threads[1].name = "" /\ threads[1].taken = 1
    /\ DOMAIN cache # {}
    /\ threads[2].pc = "get_class:locked" /\ lock = 2
    /\ threads[2].name \in DOMAIN cache
    /\ loads[threads[2].name].attempts = 0

\* the foreign classes the standard-library conversions are documented to yield
JavaClassNames ==
    {"java/lang/String", "java/util/ArrayList", "java/net/InetAddress",
     "java/net/InetSocketAddress"}

\* "L" + class name + ";", or "[" + element descriptor
WellFormedDescriptor(descriptor) ==
    \/ /\ Len(descriptor) = 3
       /\ descriptor[1] = "L" /\ descriptor[2] \in JavaClassNames /\ descriptor[3] = ";"
    \/ /\ Len(descriptor) = 2
       /\ descriptor[1] = "[" /\ descriptor[2] = "B"

\* the type under any number of Option
RECURSIVE UnderOption(_)
UnderOption(ty) == IF ty.con = "Option" THEN UnderOption(ty.arg) ELSE ty

\* C22: every standard-library conversion that yields an object declares a
\* well-formed descriptor naming the class of the object its into_java
\* constructs or returns: java.net.InetSocketAddress for SocketAddr,
\* java.net.InetAddress for the IP address types, java.util.ArrayList for
\* Vec, java.lang.String for String, the descriptor of T for Option<T>.
C22_StdDescriptorNamesClass ==
    (phase = "std" /\ pc = "returned") =>
        LET descriptor == impl.JNI_SIGNATURE
            object == result.object
            con == UnderOption(decl.ty).con
        IN  /\ WellFormedDescriptor(descriptor)
            /\ object.kind = "object" => descriptor = <<"L", object.class, ";">>
            /\ object.kind = "array" => descriptor = <<"[", object.class>>
            /\ con = "SocketAddr" => descriptor[2] = "java/net/InetSocketAddress"
            /\ con \in {"Ipv4Addr", "Ipv6Addr", "IpAddr"} =>
                    descriptor[2] = "java/net/InetAddress"
            /\ con = "Vec" => descriptor[2] = "java/util/ArrayList"
            /\ con = "String" => descriptor[2] = "java/lang/String"
            /\ decl.ty.con = "Option" => descriptor = std_JNI_SIGNATURE(decl.ty.arg)

====
